---- MODULE Spec2Model ----
(***************************************************************************)
(* A model of repository_statistics: the mining pass RepositoryInfo::new   *)
(* and the contributors (repository.rs), the per-file change frequency and *)
(* the language functions (source.rs), the per-file statistics (data.rs),  *)
(* the error type (errors.rs) and create_repository_embedding with its     *)
(* sentiments and flatten_json (embedding.rs).                             *)
(*                                                                         *)
(* The git repository, the working tree as the line counter reports it,    *)
(* the failures of the git and file-system calls, and the embedding model  *)
(* and the client of the vector store are the environment.                 *)
(* f32 values are modelled as exact rationals with NaN and the infinities; *)
(* every integer of the model is far below 2^24, where `as f32` is exact,  *)
(* and rounding to nearest keeps the order of values and the bounds 0 and  *)
(* 100, which is all the formulas below read.                              *)
(***************************************************************************)
EXTENDS Integers, Sequences, FiniteSets, TLC

VARIABLES
    repo,                  \* the git repository on disk: its commits, head last
    file_path,             \* SpecFreq: the path given to get_from_source_file
    scf,                   \* SpecFreq: the latest call's result and failed stage
    scf_prev,              \* SpecFreq: the call before it
    languages,             \* SpecLang: the &mut [LanguageType]
    predominant,           \* SpecLang: what get_predominant_language returned
    lang_pc,               \* SpecLang: which functions have been applied
    reports,               \* Spec: the tokei reports of the working tree
    pc,                    \* Spec: position inside RepositoryInfo::new
    pass,                  \* Spec: 1 or 2, the mining pass under way
    source_files,          \* Spec: Vec<SourceFileInfo> built so far
    statistics,            \* Spec: the repository's Statistics
    predominant_language,  \* Spec: Option<LanguageType> of the repository
    contributors,          \* Spec: Vec<Contributor>
    outcome,               \* Spec: what the pass returned, or that it panicked
    failed,                \* Spec: the steps the environment failed in this pass
    json,                  \* Spec: get_as_json's output for this pass
    prev_json,             \* Spec: get_as_json's output of the first pass
    repository_info,       \* SpecEmbed: the source_files of the RepositoryInfo
    preserve_order,        \* SpecEmbed: serde_json built with preserve_order
    embed_pc,              \* SpecEmbed: position inside create_repository_embedding
    files_to_embed,        \* SpecEmbed: Vec<FileToEmbed>
    files_json,            \* SpecEmbed: the JSON strings still to be flattened
    tokens,                \* SpecEmbed: the Vec<String> `result` built so far
    embedded,              \* SpecEmbed: the arguments of the calls of model.embed
    embed_outcome,         \* SpecEmbed: what the run returned
    run,                   \* SpecEmbed: 1 or 2, the run under way
    prev_tokens            \* SpecEmbed: what the first run handed to model.embed

vars == <<repo, file_path, scf, scf_prev, languages, predominant, lang_pc,
          reports, pc, pass, source_files, statistics, predominant_language,
          contributors, outcome, failed, json, prev_json, repository_info,
          preserve_order, embed_pc, files_to_embed, files_json, tokens,
          embedded, embed_outcome, run, prev_tokens>>

freq_vars == <<file_path, scf, scf_prev>>
lang_vars == <<languages, predominant, lang_pc>>
pass_vars == <<reports, pc, pass, source_files, statistics, predominant_language,
               contributors, outcome, failed, json, prev_json>>
embed_vars == <<repository_info, preserve_order, embed_pc, files_to_embed,
                files_json, tokens, embedded, embed_outcome, run, prev_tokens>>

----------------------------------------------------------------------------
(* Bounds of the model.                                                    *)

MaxCommits == 3

MaxPassCommits == 2

MaxFiles == 2

MaxLangs == 2

----------------------------------------------------------------------------
(* f32 arithmetic.                                                         *)

RECURSIVE GCD(_, _)
GCD(a, b) == IF b = 0 THEN a ELSE GCD(b, a % b)

Abs(x) == IF x < 0 THEN -x ELSE x

NaN == [kind |-> "nan", num |-> 0, den |-> 1]

Inf(sign) == [kind |-> "inf", num |-> sign, den |-> 1]

Fin(n, d) ==
    LET s == IF d < 0 THEN -1 ELSE 1
        g == GCD(Abs(n), Abs(d))
    IN  [kind |-> "fin", num |-> (s * n) \div g, den |-> (s * d) \div g]

F32FromInt(i) == Fin(i, 1)

Sign(x) == IF x < 0 THEN -1 ELSE 1

F32Div(a, b) ==
    CASE a.kind = "nan" \/ b.kind = "nan" -> NaN
      [] a.kind = "inf" /\ b.kind = "inf" -> NaN
      [] a.kind = "inf" -> Inf(a.num * Sign(b.num))
      [] b.kind = "inf" -> Fin(0, 1)
      [] b.num = 0 /\ a.num = 0 -> NaN
      [] b.num = 0 -> Inf(Sign(a.num))
      [] OTHER -> Fin(a.num * b.den, a.den * b.num)

F32Mul(a, b) ==
    CASE a.kind = "nan" \/ b.kind = "nan" -> NaN
      [] a.kind = "inf" /\ b.kind = "inf" -> Inf(a.num * b.num)
      [] a.kind = "inf" -> IF b.num = 0 THEN NaN ELSE Inf(a.num * Sign(b.num))
      [] b.kind = "inf" -> IF a.num = 0 THEN NaN ELSE Inf(b.num * Sign(a.num))
      [] OTHER -> Fin(a.num * b.num, a.den * b.den)

F32Eq(a, b) ==
    /\ a.kind # "nan"
    /\ b.kind # "nan"
    /\ a = b

F32Gt(a, b) ==
    CASE a.kind = "nan" \/ b.kind = "nan" -> FALSE
      [] a.kind = "inf" -> a.num = 1 /\ b # a
      [] b.kind = "inf" -> b.num = -1
      [] OTHER -> a.num * b.den > b.num * a.den

F32Zero == Fin(0, 1)

F32Hundred == Fin(100, 1)

----------------------------------------------------------------------------
(* errors.rs: SourceCodeError and Result.                                  *)

NoError == [variant |-> "none", source |-> "none"]

GitError(e) == [variant |-> "GitError", source |-> e]

FilePathError(e) == [variant |-> "FilePathError", source |-> e]

FileReadError(e) == [variant |-> "FileReadError", source |-> e]

ConversionError(e) == [variant |-> "ConversionError", source |-> e]

\* The git2::Error values libgit2 hands back; the code wraps them unchanged.
\* A lookup that finds no object fails alike in find_commit, commit.parent
\* and commit.tree; Repository::open fails with an error of its own.
Git2Errors == {"not_found", "generic"}

OpenErrors == {"repository_not_found"}

----------------------------------------------------------------------------
(* The repository: commits 1..n, the last one being HEAD; a commit holds   *)
(* its parents, first parent first, its author, its author time and, for   *)
(* each parent, what the diff against that parent holds for the tracked    *)
(* path (for a root commit: against the empty tree, where the path can     *)
(* only be added).                                                         *)

TrackedPath == "A"

Paths == {"A", "B"}

ChangeKinds == {"none", "modify", "typechange"}

ParentLists(k, merges) ==
    IF k = 1 THEN {<<>>}
    ELSE {<<k - 1>>} \cup
         (IF merges
          THEN {<<k - 1, j>> : j \in 1..(k - 2)} \cup {<<j, k - 1>> : j \in 1..(k - 2)}
          ELSE {})

CommitsAt(k, merges, kinds, authors, times) ==
    UNION {
        {[parents |-> p, change |-> ch, author |-> a, time |-> t] :
            ch \in IF Len(p) = 0 THEN [1..1 -> kinds \ {"typechange"}]
                   ELSE [1..Len(p) -> kinds],
            a \in authors, t \in times}
        : p \in ParentLists(k, merges)}

RECURSIVE Histories(_, _, _, _, _)
Histories(n, merges, kinds, authors, times) ==
    IF n = 0 THEN {<<>>}
    ELSE {Append(h, c) : h \in Histories(n - 1, merges, kinds, authors, times),
                         c \in CommitsAt(n, merges, kinds, authors, times)}

HistoriesUpTo(n, merges, kinds, authors, times) ==
    UNION {Histories(k, merges, kinds, authors, times) : k \in 0..n}

\* Revwalk after push_head: the commits reachable from HEAD, newest first.
RECURSIVE Ancestors(_, _)
Ancestors(r, c) ==
    {c} \cup UNION {Ancestors(r, r[c].parents[i]) : i \in 1..Len(r[c].parents)}

Reachable(r) == IF Len(r) = 0 THEN {} ELSE Ancestors(r, Len(r))

RECURSIVE Descending(_)
Descending(S) ==
    IF S = {} THEN <<>>
    ELSE LET m == CHOOSE x \in S : \A y \in S : y <= x
         IN  <<m>> \o Descending(S \ {m})

Revwalk(r) == Descending(Reachable(r))

\* diff_tree_to_tree(parent(0).tree, commit.tree): the paths of its deltas. A
\* change of the entry's type is reported as a DELETED and an ADDED delta.
DiffDeltas(commit) ==
    CASE commit.change[1] = "none" -> <<>>
      [] commit.change[1] = "modify" -> <<TrackedPath>>
      [] OTHER -> <<TrackedPath, TrackedPath>>

----------------------------------------------------------------------------
(* Failures of the environment inside one walk of the history.             *)

NoFault == [stage |-> "none", at |-> 0, source |-> "none"]

OpenStages == {"open", "revwalk", "push_head"}

WalkFaults(r) ==
    {[stage |-> "open", at |-> 0, source |-> e] : e \in OpenErrors}
    \cup {[stage |-> s, at |-> 0, source |-> e] :
            s \in {"revwalk", "push_head"}, e \in Git2Errors}
    \cup {[stage |-> s, at |-> c, source |-> e] :
            s \in {"oid", "find_commit"}, c \in Reachable(r), e \in Git2Errors}

DiffFaults(r) ==
    {[stage |-> s, at |-> c, source |-> e] :
        s \in {"parent", "tree", "diff"},
        c \in {x \in Reachable(r) : Len(r[x].parents) > 0},
        e \in Git2Errors}

\* The stage of the pass a failed call belongs to.
StageOf(stage) ==
    CASE stage = "none" -> "none"
      [] stage = "strip_prefix" -> "path"
      [] stage = "read" -> "read"
      [] stage = "open" -> "open"
      [] stage \in {"revwalk", "push_head", "oid", "find_commit"} -> "traversal"
      [] OTHER -> "diff"

----------------------------------------------------------------------------
(* source.rs: SourceFileChangeFrequency::get_from_source_file.             *)

NoScf == [file_commits |-> 0, total_commits |-> 0, frequency |-> F32Zero]

Ok(v) == [tag |-> "Ok", value |-> v, err |-> NoError]

Err(e) == [tag |-> "Err", value |-> NoScf, err |-> e]

\* The foreach callback: file_commits += 1 for every delta naming file_path.
RECURSIVE CountDeltas(_, _)
CountDeltas(deltas, path) ==
    IF deltas = <<>> THEN 0
    ELSE (IF Head(deltas) = path THEN 1 ELSE 0) + CountDeltas(Tail(deltas), path)

\* The `for commit_id in revwalk` loop, from position i of the walk: the
\* counters when the walk ends, or the first error.
RECURSIVE WalkFileCommits(_, _, _, _, _, _, _)
WalkFileCommits(r, order, i, path, fault, total_commits, file_commits) ==
    IF i > Len(order)
    THEN Ok([file_commits |-> file_commits,
             total_commits |-> total_commits,
             frequency |-> F32Zero])
    ELSE LET c == order[i]
             commit == r[c]
         IN  IF fault.at = c /\ fault.stage \in {"oid", "find_commit"}
             THEN Err(GitError(fault.source))
             ELSE IF Len(commit.parents) > 0
                  THEN IF fault.at = c /\ fault.stage \in {"parent", "tree", "diff"}
                       THEN Err(GitError(fault.source))
                       ELSE WalkFileCommits(r, order, i + 1, path, fault,
                                total_commits + 1,
                                file_commits + CountDeltas(DiffDeltas(commit), path))
                  ELSE WalkFileCommits(r, order, i + 1, path, fault,
                                total_commits + 1, file_commits)

\* A variant of ChangeFrequency that leaves out the factor 100.
ChangeFrequency_ratio(file_commits, total_commits) ==
    F32Div(F32FromInt(file_commits), F32FromInt(total_commits))

\* file_commits as f32 / total_commits as f32 * 100.00
ChangeFrequency(file_commits, total_commits) ==
    F32Mul(F32Div(F32FromInt(file_commits), F32FromInt(total_commits)), F32Hundred)

get_from_source_file(r, path, fault) ==
    IF fault.stage = "strip_prefix" THEN Err(FilePathError(fault.source))
    ELSE IF fault.stage \in OpenStages THEN Err(GitError(fault.source))
    ELSE LET walked == WalkFileCommits(r, Revwalk(r), 1, path, fault, 0, 0)
         IN  IF walked.tag = "Err" THEN walked
             ELSE Ok([file_commits |-> walked.value.file_commits,
                      total_commits |-> walked.value.total_commits,
                      frequency |-> ChangeFrequency(walked.value.file_commits,
                                                    walked.value.total_commits)])

FileFaults(r) ==
    {NoFault} \cup {[stage |-> "strip_prefix", at |-> 0, source |-> "strip_prefix"]}
    \cup WalkFaults(r) \cup DiffFaults(r)

----------------------------------------------------------------------------
(* SpecFreq: get_from_source_file called, up to twice, on a repository.    *)

Idle == "idle"

NoCall == [result |-> Err(NoError), stage |-> "none", called |-> FALSE]

FreqRepos == HistoriesUpTo(MaxCommits, TRUE, ChangeKinds, {"ann"}, {1})

InitFreq ==
    /\ repo \in FreqRepos
    /\ file_path \in Paths
    /\ scf = NoCall
    /\ scf_prev = NoCall
    /\ languages = Idle /\ predominant = Idle /\ lang_pc = Idle
    /\ reports = Idle /\ pc = Idle /\ pass = 0 /\ source_files = Idle
    /\ statistics = Idle /\ predominant_language = Idle /\ contributors = Idle
    /\ outcome = Idle /\ failed = Idle /\ json = Idle /\ prev_json = Idle
    /\ repository_info = Idle /\ preserve_order = Idle /\ embed_pc = Idle
    /\ files_to_embed = Idle /\ files_json = Idle /\ tokens = Idle
    /\ embedded = Idle
    /\ embed_outcome = Idle /\ run = 0 /\ prev_tokens = Idle

CallGetFromSourceFile ==
    /\ ~scf_prev.called
    /\ \E fault \in FileFaults(repo) :
         scf' = [result |-> get_from_source_file(repo, file_path, fault),
                 stage |-> StageOf(fault.stage),
                 called |-> TRUE]
    /\ scf_prev' = scf
    /\ UNCHANGED <<repo, file_path, lang_vars, pass_vars, embed_vars>>

NextFreq == CallGetFromSourceFile

SpecFreq == InitFreq /\ [][NextFreq]_vars

----------------------------------------------------------------------------
(* Claims about get_from_source_file, checked under SpecFreq.              *)

FreqCalled == scf.called /\ scf.stage = "none"

\* A history of exactly three commits in a line.
LineOfThree ==
    /\ Len(repo) = 3
    /\ repo[1].parents = <<>>
    /\ repo[2].parents = <<1>>
    /\ repo[3].parents = <<2>>

\* C3 as claimed: on a repository with 0 commits whose calls all succeed,
\* get_from_source_file returns Ok with total_commits = 0, file_commits = 0
\* and frequency = 0 (no error, no NaN).
C3_ZeroCommitsFrequencyZero ==
    (FreqCalled /\ Len(repo) = 0) =>
        /\ scf.result.tag = "Ok"
        /\ scf.result.value = [file_commits |-> 0, total_commits |-> 0,
                               frequency |-> F32Zero]

C5_FrequencyInRange ==
    (scf.called /\ scf.result.tag = "Ok" /\ Len(repo) >= 1) =>
        /\ 0 <= scf.result.value.file_commits
        /\ scf.result.value.file_commits <= scf.result.value.total_commits
        /\ scf.result.value.frequency.kind = "fin"
        /\ ~F32Gt(F32Zero, scf.result.value.frequency)
        /\ ~F32Gt(scf.result.value.frequency, F32Hundred)

\* C10 as claimed: two calls that fail in different stages among repository
\* open, commit traversal and tree diff return different error values.
C10_StagesDistinct ==
    (/\ scf.called /\ scf_prev.called
     /\ scf.result.tag = "Err" /\ scf_prev.result.tag = "Err"
     /\ scf.stage \in {"open", "traversal", "diff"}
     /\ scf_prev.stage \in {"open", "traversal", "diff"}
     /\ scf.stage # scf_prev.stage) =>
        scf.result.err # scf_prev.result.err

\* The commits with a parent whose diff against the first parent holds an
\* entry for the path.
ChangedIn(r, path) ==
    {c \in Reachable(r) :
        /\ Len(r[c].parents) > 0
        /\ path = TrackedPath
        /\ r[c].change[1] # "none"}

\* C13 as claimed: a successful call returns total_commits = the number of
\* the commits reachable from head, and file_commits = the number of those
\* commits that have a parent and whose diff against the first parent holds
\* an entry for the path; the root commit and the other parents add nothing.
C13_CountsCommitsOfFirstParentDiffs ==
    (scf.called /\ scf.result.tag = "Ok") =>
        /\ scf.result.value.total_commits = Cardinality(Reachable(repo))
        /\ scf.result.value.file_commits = Cardinality(ChangedIn(repo, file_path))

----------------------------------------------------------------------------
(* data.rs: Statistics; source.rs: LanguageType and its functions.         *)

Statistics(size, loc, num_files, num_commits, frequency) ==
    [size |-> size, loc |-> loc, num_files |-> num_files,
     num_commits |-> num_commits, frequency |-> frequency]

Statistics_new == Statistics(0, 0, 0, 0, F32Zero)

None == [some |-> FALSE, val |-> Statistics_new]

Some(v) == [some |-> TRUE, val |-> v]

LanguageType(name, extensions, stats) ==
    [name |-> name, extensions |-> extensions, statistics |-> stats]

LanguageType_default == LanguageType("", <<>>, None)

LanguageType_new_from(tokei_language_name) ==
    LanguageType(tokei_language_name, <<>>, None)

RECURSIVE sum_lines_of_code(_)
sum_lines_of_code(language_types) ==
    IF language_types = <<>> THEN 0
    ELSE (IF Head(language_types).statistics.some
          THEN Head(language_types).statistics.val.loc
          ELSE 0) + sum_lines_of_code(Tail(language_types))

\* A variant of PredominantFrom in which an entry of equal frequency and
\* equal size replaces the one chosen before.
RECURSIVE PredominantFrom_last(_, _, _, _, _)
PredominantFrom_last(langs, i, current_predominant, highest_percentage, largest_size) ==
    IF i > Len(langs) THEN current_predominant
    ELSE LET lang == langs[i]
             st == lang.statistics.val
         IN  IF /\ lang.statistics.some
                /\ \/ F32Gt(st.frequency, highest_percentage)
                   \/ /\ F32Eq(st.frequency, highest_percentage)
                      /\ st.size >= largest_size
             THEN PredominantFrom_last(langs, i + 1, lang, st.frequency, st.size)
             ELSE PredominantFrom_last(langs, i + 1, current_predominant,
                                       highest_percentage, largest_size)

\* The loop of get_predominant_language from entry i on.
RECURSIVE PredominantFrom(_, _, _, _, _)
PredominantFrom(langs, i, current_predominant, highest_percentage, largest_size) ==
    IF i > Len(langs) THEN current_predominant
    ELSE LET lang == langs[i]
             st == lang.statistics.val
         IN  IF /\ lang.statistics.some
                /\ \/ F32Gt(st.frequency, highest_percentage)
                   \/ /\ F32Eq(st.frequency, highest_percentage)
                      /\ st.size > largest_size
             THEN PredominantFrom(langs, i + 1, lang, st.frequency, st.size)
             ELSE PredominantFrom(langs, i + 1, current_predominant,
                                  highest_percentage, largest_size)

LanguageType_get_predominant_language(langs) ==
    PredominantFrom(langs, 1, LanguageType_default, F32Zero, 0)

\* (statistics.loc as f32 / total_lines_of_code as f32) * 100.0
LocShare(loc, total_lines_of_code) ==
    F32Mul(F32Div(F32FromInt(loc), F32FromInt(total_lines_of_code)), F32Hundred)

\* The loop of calculate_percentage_distribution over the slice.
RECURSIVE DistributeFrom(_, _)
DistributeFrom(langs, total_lines_of_code) ==
    IF langs = <<>> THEN <<>>
    ELSE LET lang == Head(langs)
             updated ==
                 IF lang.statistics.some
                 THEN [lang EXCEPT !.statistics.val.frequency =
                          LocShare(lang.statistics.val.loc, total_lines_of_code)]
                 ELSE lang
         IN  <<updated>> \o DistributeFrom(Tail(langs), total_lines_of_code)

calculate_percentage_distribution(langs) ==
    DistributeFrom(langs, sum_lines_of_code(langs))

----------------------------------------------------------------------------
(* SpecLang: the language functions applied to a list of LanguageType.     *)

LanguageNames == {"Rust", "C"}

SizeValues == {0, 1, 2}

LocValues == {0, 1, 3}

FrequencyValues == {F32Zero, Fin(25, 1), Fin(75, 1), NaN}

\* Entries as a caller may hand them over: without statistics, with a
\* frequency already set, or with lines of code still to be distributed.
LanguageEntries ==
    {LanguageType(n, <<>>, None) : n \in LanguageNames}
    \cup {LanguageType(n, <<>>, Some(Statistics(sz, 0, 1, 0, f))) :
            n \in LanguageNames, sz \in SizeValues, f \in FrequencyValues}
    \cup {LanguageType(n, <<>>, Some(Statistics(sz, l, 1, 0, F32Zero))) :
            n \in LanguageNames, sz \in SizeValues, l \in LocValues}

RECURSIVE SeqsOfLen(_, _)
SeqsOfLen(S, n) ==
    IF n = 0 THEN {<<>>}
    ELSE {Append(q, x) : q \in SeqsOfLen(S, n - 1), x \in S}

SeqsUpTo(S, n) == UNION {SeqsOfLen(S, k) : k \in 0..n}

InitLang ==
    /\ \E n \in 0..MaxLangs : languages \in [1..n -> LanguageEntries]
    /\ predominant = LanguageType_default
    /\ lang_pc = "input"
    /\ repo = Idle /\ file_path = Idle /\ scf = Idle /\ scf_prev = Idle
    /\ reports = Idle /\ pc = Idle /\ pass = 0 /\ source_files = Idle
    /\ statistics = Idle /\ predominant_language = Idle /\ contributors = Idle
    /\ outcome = Idle /\ failed = Idle /\ json = Idle /\ prev_json = Idle
    /\ repository_info = Idle /\ preserve_order = Idle /\ embed_pc = Idle
    /\ files_to_embed = Idle /\ files_json = Idle /\ tokens = Idle
    /\ embedded = Idle
    /\ embed_outcome = Idle /\ run = 0 /\ prev_tokens = Idle

CalculatePercentageDistribution ==
    /\ lang_pc = "input"
    /\ languages' = calculate_percentage_distribution(languages)
    /\ lang_pc' = "distributed"
    /\ UNCHANGED <<repo, freq_vars, predominant, pass_vars, embed_vars>>

GetPredominantLanguage ==
    /\ lang_pc \in {"input", "distributed"}
    /\ predominant' = LanguageType_get_predominant_language(languages)
    /\ lang_pc' = IF lang_pc = "input" THEN "selected" ELSE "distributed_selected"
    /\ UNCHANGED <<repo, freq_vars, languages, pass_vars, embed_vars>>

NextLang == CalculatePercentageDistribution \/ GetPredominantLanguage

SpecLang == InitLang /\ [][NextLang]_vars

----------------------------------------------------------------------------
(* Claims about the language functions, checked under SpecLang.            *)

Selected == lang_pc \in {"selected", "distributed_selected"}

Distributed == lang_pc \in {"distributed", "distributed_selected"}

WithStatistics == {i \in 1..Len(languages) : languages[i].statistics.some}

\* C8 as claimed: get_predominant_language returns the default LanguageType
\* whenever no entry of the list has statistics.frequency > 0.
C8_NoPositiveFrequencyGivesDefault ==
    (/\ Selected
     /\ \A i \in WithStatistics :
            ~F32Gt(languages[i].statistics.val.frequency, F32Zero)) =>
        predominant = LanguageType_default

\* C9 as claimed: calculate_percentage_distribution sets every entry's
\* frequency to exactly 0 when the total of the lines of code is 0, and to
\* loc / total x 100 when the total is positive.
C9_DistributionGuarded ==
    Distributed =>
        \A i \in WithStatistics :
            languages[i].statistics.val.frequency =
                IF sum_lines_of_code(languages) = 0 THEN F32Zero
                ELSE Fin(languages[i].statistics.val.loc * 100,
                         sum_lines_of_code(languages))

\* C15: when some entry has statistics.frequency > 0, the entry returned by
\* get_predominant_language is an entry of the list with statistics; no
\* entry has a higher frequency, no entry of that frequency has a larger
\* size, and no entry before it in the list has both that frequency and
\* that size.
C15_PredominantIsFirstMaximum ==
    (/\ Selected
     /\ \E i \in WithStatistics :
            F32Gt(languages[i].statistics.val.frequency, F32Zero)) =>
        /\ predominant.statistics.some
        /\ \E i \in WithStatistics :
              LET chosen == languages[i].statistics.val
              IN  /\ languages[i] = predominant
                  /\ \A j \in WithStatistics :
                        LET other == languages[j].statistics.val
                        IN  /\ ~F32Gt(other.frequency, chosen.frequency)
                            /\ F32Eq(other.frequency, chosen.frequency) =>
                                  other.size <= chosen.size
                            /\ (j < i /\ F32Eq(other.frequency, chosen.frequency)) =>
                                  other.size < chosen.size

C15_Witness ==
    /\ Selected
    /\ Len(languages) = 2
    /\ languages[1].name = "Rust"
    /\ languages[2].name = "C"
    /\ languages[1].statistics = Some(Statistics(2, 0, 1, 0, Fin(75, 1)))
    /\ languages[2].statistics = languages[1].statistics
    /\ predominant = languages[1]

----------------------------------------------------------------------------
(* repository.rs: get_total_commits and Contributor::get_git_contributors. *)

OkCount(n) == [tag |-> "Ok", value |-> n, err |-> NoError]

ErrCount(e) == [tag |-> "Err", value |-> 0, err |-> e]

\* The `for commit_id in revwalk` loop of get_total_commits.
RECURSIVE WalkTotalCommits(_, _, _, _)
WalkTotalCommits(order, i, fault, total_commits) ==
    IF i > Len(order) THEN OkCount(total_commits)
    ELSE IF fault.at = order[i] /\ fault.stage \in {"oid", "find_commit"}
         THEN ErrCount(GitError(fault.source))
         ELSE WalkTotalCommits(order, i + 1, fault, total_commits + 1)

get_total_commits(r, fault) ==
    IF fault.stage \in OpenStages THEN ErrCount(GitError(fault.source))
    ELSE WalkTotalCommits(Revwalk(r), 1, fault, 0)

unwrap_or_default(result) == IF result.tag = "Ok" THEN result.value ELSE 0

Contributor(name, last_contribution, percentage_contribution, stats) ==
    [name |-> name, last_contribution |-> last_contribution,
     percentage_contribution |-> percentage_contribution, statistics |-> stats]

NoEntry == [date |-> 0, count |-> 0]

\* The `for oid in revwalk` loop of get_git_contributors: the HashMap
\* `contributions` (its keys are `keys`) and total_contributions, or the panic
\* of an expect.
RECURSIVE WalkContributions(_, _, _, _, _, _, _)
WalkContributions(r, order, i, fault, keys, contributions, total_contributions) ==
    IF i > Len(order)
    THEN [tag |-> "Ok", keys |-> keys, contributions |-> contributions,
          total_contributions |-> total_contributions, message |-> ""]
    ELSE LET c == order[i]
             name == r[c].author
             date == r[c].time
             entry == IF name \in keys THEN contributions[name]
                      ELSE [date |-> date, count |-> 0]
             updated == [date |-> IF date > entry.date THEN date ELSE entry.date,
                         count |-> entry.count + 1]
         IN  IF fault.at = c /\ fault.stage = "oid"
             THEN [tag |-> "Panic", keys |-> {}, contributions |-> contributions,
                   total_contributions |-> 0, message |-> "Invalid oid"]
             ELSE IF fault.at = c /\ fault.stage = "find_commit"
                  THEN WalkContributions(r, order, i + 1, fault, keys,
                                         contributions, total_contributions)
                  ELSE WalkContributions(r, order, i + 1, fault,
                           keys \cup {name},
                           [contributions EXCEPT ![name] = updated],
                           total_contributions + 1)

\* A variant of ContributionShare that leaves out the factor 100.
ContributionShare_ratio(num_commits, total_contributions) ==
    F32Div(F32FromInt(num_commits), F32FromInt(total_contributions))

\* num_commits as f32 / total_contributions as f32 * 100.0
ContributionShare(num_commits, total_contributions) ==
    F32Mul(F32Div(F32FromInt(num_commits), F32FromInt(total_contributions)),
           F32Hundred)

\* contributions.into_iter().map(..).collect(): the entries in the order the
\* HashMap yields its keys.
RECURSIVE CollectContributors(_, _, _, _)
CollectContributors(iteration, keys, contributions, total_contributions) ==
    IF iteration = <<>> THEN <<>>
    ELSE LET name == Head(iteration)
             rest == CollectContributors(Tail(iteration), keys, contributions,
                                         total_contributions)
         IN  IF name \in keys
             THEN <<Contributor(name, contributions[name].date,
                        ContributionShare(contributions[name].count,
                                          total_contributions),
                        Statistics(0, 0, 0, contributions[name].count, F32Zero))>>
                  \o rest
             ELSE rest

ExpectMessage(stage) ==
    CASE stage = "open" -> "Failed to open repository"
      [] stage = "revwalk" -> "Failed to get revwalk"
      [] OTHER -> "Failed to push head"

Authors == {"ann", "bob"}

\* `iteration` is the order in which the HashMap yields the author names.
get_git_contributors(r, fault, iteration) ==
    IF fault.stage \in OpenStages
    THEN [tag |-> "Panic", value |-> <<>>, message |-> ExpectMessage(fault.stage)]
    ELSE LET walked == WalkContributions(r, Revwalk(r), 1, fault, {},
                                         [a \in Authors |-> NoEntry], 0)
         IN  IF walked.tag = "Panic"
             THEN [tag |-> "Panic", value |-> <<>>, message |-> walked.message]
             ELSE [tag |-> "Ok",
                   value |-> CollectContributors(iteration, walked.keys,
                                 walked.contributions, walked.total_contributions),
                   message |-> ""]

----------------------------------------------------------------------------
(* data.rs: Statistics::get_statistics_for_source_file; source.rs:          *)
(* SourceFileInfo::get_source_file_info; repository.rs: RepositoryInfo.    *)

OkValue(v) == [tag |-> "Ok", value |-> v, err |-> NoError]

get_statistics_for_source_file(r, source_file_path, fault) ==
    LET result == get_from_source_file(r, source_file_path, fault)
    IN  IF result.tag = "Err" THEN result
        ELSE OkValue(Statistics(0, 0, 1, result.value.file_commits,
                                result.value.frequency))

\* Sha256 of the contents, as lowercase hex: a function of the contents alone.
calculate_hash_from(contents) == "sha256(" \o contents \o ")"

SomeValue(v) == [some |-> TRUE, val |-> v]

\* A tokei report: the file's name, its extension, its lines of code, and
\* what read_to_string finds on disk (the contents and their length). The
\* length of a String is at most isize::MAX, so get_file_contents_size never
\* returns its ConversionError.
get_source_file_info(r, file_report, lang_type, fault) ==
    IF fault.stage = "read" THEN [tag |-> "Err", value |-> 0, err |-> FileReadError(fault.source)]
    ELSE LET stats == get_statistics_for_source_file(r, file_report.name, fault)
         IN  IF stats.tag = "Err" THEN [tag |-> "Err", value |-> 0, err |-> stats.err]
             ELSE OkValue(
                    [name |-> file_report.name,
                     relative_path |-> file_report.name,
                     language |->
                        SomeValue([lang_type EXCEPT !.extensions = file_report.extension]),
                     id_hash |-> SomeValue(calculate_hash_from(file_report.contents)),
                     statistics |->
                        [stats.value EXCEPT !.loc = file_report.code,
                                            !.size = file_report.len]])

\* A variant of get_total_size that sums the loc of the files.
RECURSIVE get_total_size_of_loc(_)
get_total_size_of_loc(source_file_infos) ==
    IF source_file_infos = <<>> THEN 0
    ELSE Head(source_file_infos).statistics.loc
         + get_total_size_of_loc(Tail(source_file_infos))

RECURSIVE get_total_size(_)
get_total_size(source_file_infos) ==
    IF source_file_infos = <<>> THEN 0
    ELSE Head(source_file_infos).statistics.size
         + get_total_size(Tail(source_file_infos))

RECURSIVE get_total_lines_of_code(_)
get_total_lines_of_code(source_file_infos) ==
    IF source_file_infos = <<>> THEN 0
    ELSE Head(source_file_infos).statistics.loc
         + get_total_lines_of_code(Tail(source_file_infos))

\* The languages pushed by RepositoryInfo::get_predominant_language.
RECURSIVE LanguagesOf(_)
LanguagesOf(source_file_infos) ==
    IF source_file_infos = <<>> THEN <<>>
    ELSE (IF Head(source_file_infos).language.some
          THEN <<Head(source_file_infos).language.val>>
          ELSE <<>>) \o LanguagesOf(Tail(source_file_infos))

RepositoryInfo_get_predominant_language(source_file_infos) ==
    LanguageType_get_predominant_language(LanguagesOf(source_file_infos))

----------------------------------------------------------------------------
(* get_as_json: serde_json::to_string over the derived Serialize, as the   *)
(* sequence of the output's tokens.                                        *)

\* An f32: a number, or null for NaN and the infinities.
SerF32(x) ==
    IF x.kind = "fin" THEN ToString(x.num) \o "/" \o ToString(x.den) ELSE "null"

SerStatistics(st) ==
    <<"{", "size", ToString(st.size), "loc", ToString(st.loc),
      "num_files", ToString(st.num_files), "num_commits", ToString(st.num_commits),
      "frequency", SerF32(st.frequency), "}">>

\* statistics carries skip_serializing_if = "Option::is_none".
SerLanguageType(lang) ==
    <<"{", "name", lang.name, "extensions", "[">> \o lang.extensions \o <<"]">>
    \o (IF lang.statistics.some
        THEN <<"statistics">> \o SerStatistics(lang.statistics.val)
        ELSE <<>>)
    \o <<"}">>

\* language is skipped when None; source_file carries serde(skip).
SerSourceFileInfo(sfi) ==
    <<"{", "name", sfi.name, "relative_path", sfi.relative_path>>
    \o (IF sfi.language.some
        THEN <<"language">> \o SerLanguageType(sfi.language.val)
        ELSE <<>>)
    \o <<"id_hash", IF sfi.id_hash.some THEN sfi.id_hash.val ELSE "null">>
    \o <<"statistics">> \o SerStatistics(sfi.statistics)
    \o <<"}">>

SerContributor(c) ==
    <<"{", "name", c.name, "last_contribution", ToString(c.last_contribution),
      "percentage_contribution", SerF32(c.percentage_contribution),
      "statistics">> \o SerStatistics(c.statistics) \o <<"}">>

RECURSIVE SerContributors(_)
SerContributors(items) ==
    IF items = <<>> THEN <<>>
    ELSE SerContributor(Head(items)) \o SerContributors(Tail(items))

RECURSIVE SerSourceFiles(_)
SerSourceFiles(items) ==
    IF items = <<>> THEN <<>>
    ELSE SerSourceFileInfo(Head(items)) \o SerSourceFiles(Tail(items))

\* The fields of RepositoryInfo in their declaration order.
get_as_json(name, language, stats, contribs, files) ==
    <<"{", "name", name, "predominant_language">>
    \o (IF language.some THEN SerLanguageType(language.val) ELSE <<"null">>)
    \o <<"statistics">> \o SerStatistics(stats)
    \o <<"contributors", "[">> \o SerContributors(contribs) \o <<"]">>
    \o <<"source_files", "[">> \o SerSourceFiles(files) \o <<"]", "}">>

----------------------------------------------------------------------------
(* Spec: RepositoryInfo::new followed by get_as_json, run twice over the   *)
(* same repository and working tree.                                       *)

FileNames == <<"A", "B", "C", "D">>

\* What tokei reports of a file and what reading it finds.
FileKinds ==
    {[language |-> "C", extension |-> <<"c">>, code |-> 0, len |-> 1],
     [language |-> "Rust", extension |-> <<"rs">>, code |-> 2, len |-> 5],
     [language |-> "Rust", extension |-> <<"rs">>, code |-> 1, len |-> 3]}

Report(kind, i) ==
    [language |-> kind.language, name |-> FileNames[i], extension |-> kind.extension,
     code |-> kind.code, len |-> kind.len, contents |-> FileNames[i]]

\* Languages iterates its BTreeMap in key order: the reports of C come before
\* those of Rust.
LanguageRank(name) == IF name = "C" THEN 1 ELSE 2

ReportLists ==
    {[i \in 1..Len(kinds) |-> Report(kinds[i], i)] :
        kinds \in {q \in SeqsUpTo(FileKinds, MaxFiles) :
                     \A i \in 1..Len(q), j \in 1..Len(q) :
                        i < j => LanguageRank(q[i].language) <= LanguageRank(q[j].language)}}

PassRepos == HistoriesUpTo(MaxPassCommits, FALSE, {"none", "modify"}, Authors, {1})

RepositoryName == "repository"

NoOutcome == [tag |-> "none", err |-> NoError, message |-> ""]

NoLanguage == [some |-> FALSE, val |-> LanguageType_default]

Perms(S) ==
    {q \in SeqsOfLen(S, Cardinality(S)) : \A x \in S : \E i \in 1..Len(q) : q[i] = x}

Init ==
    /\ repo \in PassRepos
    /\ reports \in ReportLists
    /\ pc = "files"
    /\ pass = 1
    /\ source_files = <<>>
    /\ statistics = Statistics_new
    /\ predominant_language = NoLanguage
    /\ contributors = <<>>
    /\ outcome = NoOutcome
    /\ failed = {}
    /\ json = <<>>
    /\ prev_json = <<>>
    /\ file_path = Idle /\ scf = Idle /\ scf_prev = Idle
    /\ languages = Idle /\ predominant = Idle /\ lang_pc = Idle
    /\ repository_info = Idle /\ preserve_order = Idle /\ embed_pc = Idle
    /\ files_to_embed = Idle /\ files_json = Idle /\ tokens = Idle
    /\ embedded = Idle
    /\ embed_outcome = Idle /\ run = 0 /\ prev_tokens = Idle

ReadFault == [stage |-> "read", at |-> 0, source |-> "io"]

\* One turn of the loop of get_source_file_info_for_repo; an error leaves
\* RepositoryInfo::new through the `?`.
GetSourceFileInfo ==
    /\ pc = "files"
    /\ Len(source_files) < Len(reports)
    /\ \E fault \in FileFaults(repo) \cup {ReadFault} :
         LET file_report == reports[Len(source_files) + 1]
             result == get_source_file_info(repo, file_report,
                          LanguageType_new_from(file_report.language), fault)
         IN  IF result.tag = "Err"
             THEN /\ outcome' = [tag |-> "Err", err |-> result.err, message |-> ""]
                  /\ pc' = "returned"
                  /\ failed' = failed \cup {StageOf(fault.stage)}
                  /\ UNCHANGED source_files
             ELSE /\ source_files' = Append(source_files, result.value)
                  /\ UNCHANGED <<outcome, pc, failed>>
    /\ UNCHANGED <<repo, freq_vars, lang_vars, embed_vars, reports, pass, statistics,
                   predominant_language, contributors, json, prev_json>>

\* Lines 33 to 39 of RepositoryInfo::new, once every report is turned into a
\* SourceFileInfo.
ComputeStatistics ==
    /\ pc = "files"
    /\ Len(source_files) = Len(reports)
    /\ \E fault \in {NoFault} \cup WalkFaults(repo) :
         /\ statistics' =
              [Statistics_new EXCEPT
                 !.loc = get_total_lines_of_code(source_files),
                 !.num_files = Len(source_files),
                 !.num_commits = unwrap_or_default(get_total_commits(repo, fault)),
                 !.size = get_total_size(source_files)]
         /\ failed' = IF fault = NoFault THEN failed
                      ELSE failed \cup {StageOf(fault.stage)}
    /\ predominant_language' =
          SomeValue(RepositoryInfo_get_predominant_language(source_files))
    /\ pc' = "contributors"
    /\ UNCHANGED <<repo, freq_vars, lang_vars, embed_vars, reports, pass, source_files,
                   contributors, outcome, json, prev_json>>

\* Line 41 and the Ok(Self {..}) that follows it, or the panic of an expect.
GetGitContributors ==
    /\ pc = "contributors"
    /\ \E fault \in {NoFault} \cup WalkFaults(repo), iteration \in Perms(Authors) :
         LET result == get_git_contributors(repo, fault, iteration)
         IN  /\ failed' = IF fault = NoFault THEN failed
                          ELSE failed \cup {StageOf(fault.stage)}
             /\ IF result.tag = "Panic"
                THEN /\ outcome' = [tag |-> "Panic", err |-> NoError,
                                    message |-> result.message]
                     /\ pc' = "panicked"
                     /\ UNCHANGED contributors
                ELSE /\ contributors' = result.value
                     /\ outcome' = [tag |-> "Ok", err |-> NoError, message |-> ""]
                     /\ pc' = "returned"
    /\ UNCHANGED <<repo, freq_vars, lang_vars, embed_vars, reports, pass, source_files,
                   statistics, predominant_language, json, prev_json>>

GetAsJson ==
    /\ pc = "returned"
    /\ outcome.tag = "Ok"
    /\ json' = get_as_json(RepositoryName, predominant_language, statistics,
                           contributors, source_files)
    /\ pc' = "serialized"
    /\ UNCHANGED <<repo, freq_vars, lang_vars, embed_vars, reports, pass, source_files,
                   statistics, predominant_language, contributors, outcome,
                   failed, prev_json>>

\* The caller mines the unchanged repository again after a pass in which no
\* call failed.
SecondPass ==
    /\ pc = "serialized"
    /\ pass = 1
    /\ failed = {}
    /\ pass' = 2
    /\ prev_json' = json
    /\ pc' = "files"
    /\ source_files' = <<>>
    /\ statistics' = Statistics_new
    /\ predominant_language' = NoLanguage
    /\ contributors' = <<>>
    /\ outcome' = NoOutcome
    /\ json' = <<>>
    /\ UNCHANGED <<repo, freq_vars, lang_vars, embed_vars, reports, failed>>

Next ==
    \/ GetSourceFileInfo
    \/ ComputeStatistics
    \/ GetGitContributors
    \/ GetAsJson
    \/ SecondPass

Spec == Init /\ [][Next]_vars

----------------------------------------------------------------------------
(* Claims about RepositoryInfo::new and get_as_json, checked under Spec.   *)

Returned == pc \in {"returned", "serialized"} /\ outcome.tag = "Ok"

Ended == pc \in {"returned", "serialized", "panicked"}

RECURSIVE SumOfSizes(_, _)
SumOfSizes(files, n) ==
    IF n = 0 THEN 0 ELSE files[n].statistics.size + SumOfSizes(files, n - 1)

RECURSIVE SumOfLocs(_, _)
SumOfLocs(files, n) ==
    IF n = 0 THEN 0 ELSE files[n].statistics.loc + SumOfLocs(files, n - 1)

\* C1: in every RepositoryInfo that RepositoryInfo::new returns,
\* statistics.size is the sum of the files' sizes, statistics.loc the sum of
\* the files' loc, and statistics.num_files the number of source files.
C1_TotalsAreSums ==
    Returned =>
        /\ statistics.size = SumOfSizes(source_files, Len(source_files))
        /\ statistics.loc = SumOfLocs(source_files, Len(source_files))
        /\ statistics.num_files = Len(source_files)

C1_Witness ==
    /\ Returned
    /\ Len(source_files) = 2
    /\ source_files[1].statistics.size = 1
    /\ source_files[2].statistics.size = 5
    /\ statistics.size = 6
    /\ statistics.loc = 2
    /\ statistics.num_files = 2

\* C2 as claimed: once a step of the pass has failed, RepositoryInfo::new
\* ends by returning an error: it returns no RepositoryInfo and does not
\* panic.
C2_FailureGivesError ==
    (Ended /\ failed # {}) => outcome.tag = "Err"

\* C6 as claimed: two passes over the unchanged repository, no call failing
\* in either, serialize to the same output.
C6_PassesAgree ==
    (pass = 2 /\ pc = "serialized" /\ failed = {}) => json = prev_json

\* C7 as claimed: when some source file has loc > 0, the predominant_language
\* of the returned RepositoryInfo is not the default LanguageType and names a
\* language of the source files.
C7_PredominantIsDominant ==
    (Returned /\ \E i \in 1..Len(source_files) : source_files[i].statistics.loc > 0) =>
        /\ predominant_language.some
        /\ predominant_language.val # LanguageType_default
        /\ \E i \in 1..Len(source_files) :
              /\ source_files[i].language.some
              /\ source_files[i].language.val.name = predominant_language.val.name

RECURSIVE SumOfContributions(_, _)
SumOfContributions(contribs, n) ==
    IF n = 0 THEN 0
    ELSE contribs[n].statistics.num_commits + SumOfContributions(contribs, n - 1)

\* C17 as claimed: in every RepositoryInfo that RepositoryInfo::new returns,
\* the num_commits of the contributors add up to the repository's
\* num_commits, the contributors' names are pairwise distinct, every
\* contributor has num_commits >= 1, and no file's num_commits is above the
\* repository's, also when a lookup of a commit failed in one of the walks.
C17_WalksAgree ==
    Returned =>
        /\ SumOfContributions(contributors, Len(contributors)) = statistics.num_commits
        /\ \A i \in 1..Len(contributors), j \in 1..Len(contributors) :
              i # j => contributors[i].name # contributors[j].name
        /\ \A i \in 1..Len(contributors) : contributors[i].statistics.num_commits >= 1
        /\ \A i \in 1..Len(source_files) :
              source_files[i].statistics.num_commits <= statistics.num_commits

----------------------------------------------------------------------------
(* SpecContrib: Contributor::get_git_contributors called on a repository   *)
(* whose commits carry author names that are valid UTF-8 and author times  *)
(* within the range of NaiveDateTime.                                      *)

ContribTimes == {1, 2}

ContribRepos == HistoriesUpTo(MaxCommits, TRUE, {"none"}, Authors, ContribTimes)

InitContrib ==
    /\ repo \in ContribRepos
    /\ pc = "call"
    /\ contributors = <<>>
    /\ outcome = [tag |-> "none", err |-> NoError, message |-> ""]
    /\ failed = {}
    /\ reports = Idle /\ pass = 0 /\ source_files = Idle /\ statistics = Idle
    /\ predominant_language = Idle /\ json = Idle /\ prev_json = Idle
    /\ file_path = Idle /\ scf = Idle /\ scf_prev = Idle
    /\ languages = Idle /\ predominant = Idle /\ lang_pc = Idle
    /\ repository_info = Idle /\ preserve_order = Idle /\ embed_pc = Idle
    /\ files_to_embed = Idle /\ files_json = Idle /\ tokens = Idle
    /\ embedded = Idle
    /\ embed_outcome = Idle /\ run = 0 /\ prev_tokens = Idle

\* The Vec<Contributor> the call returns, or the panic of an expect.
CallGetGitContributors ==
    /\ pc = "call"
    /\ \E fault \in {NoFault} \cup WalkFaults(repo), iteration \in Perms(Authors) :
         LET returned == get_git_contributors(repo, fault, iteration)
         IN  /\ failed' = IF fault = NoFault THEN failed
                          ELSE failed \cup {StageOf(fault.stage)}
             /\ IF returned.tag = "Panic"
                THEN /\ outcome' = [tag |-> "Panic", err |-> NoError,
                                    message |-> returned.message]
                     /\ pc' = "panicked"
                     /\ UNCHANGED contributors
                ELSE /\ contributors' = returned.value
                     /\ outcome' = [tag |-> "Ok", err |-> NoError, message |-> ""]
                     /\ pc' = "returned"
    /\ UNCHANGED <<repo, freq_vars, lang_vars, embed_vars, reports, pass,
                   source_files, statistics, predominant_language, json, prev_json>>

NextContrib == CallGetGitContributors

SpecContrib == InitContrib /\ [][NextContrib]_vars

----------------------------------------------------------------------------
(* Claims about get_git_contributors, checked under SpecContrib.           *)

CommitsBy(r, name) == {c \in Reachable(r) : r[c].author = name}

AuthorsOf(r) == {r[c].author : c \in Reachable(r)}

LatestOf(r, name) ==
    CHOOSE t \in ContribTimes :
        /\ \E c \in CommitsBy(r, name) : r[c].time = t
        /\ \A c \in CommitsBy(r, name) : r[c].time <= t

\* C14: a call in whose walk every commit is read returns one Contributor
\* for each author name of the commits reachable from head and no other;
\* its num_commits is the number of those commits by that author, its
\* last_contribution the latest author time among them, and its
\* percentage_contribution num_commits / the number of all those commits
\* x 100.
C14_OneContributorPerAuthor ==
    (pc = "returned" /\ failed = {}) =>
        /\ Len(contributors) = Cardinality(AuthorsOf(repo))
        /\ {contributors[i].name : i \in 1..Len(contributors)} = AuthorsOf(repo)
        /\ \A i \in 1..Len(contributors) :
              LET name == contributors[i].name
              IN  /\ contributors[i].statistics.num_commits =
                        Cardinality(CommitsBy(repo, name))
                  /\ contributors[i].last_contribution = LatestOf(repo, name)
                  /\ contributors[i].percentage_contribution =
                        Fin(Cardinality(CommitsBy(repo, name)) * 100,
                            Cardinality(Reachable(repo)))

\* ann's commits 1 and 3 are visited newest first, the older one carrying
\* the later author time.
C14_Witness ==
    /\ pc = "returned"
    /\ failed = {}
    /\ Len(repo) = 3
    /\ repo[3].parents = <<2>>
    /\ repo[3].author = "ann" /\ repo[3].time = 1
    /\ repo[2].author = "bob"
    /\ repo[1].author = "ann" /\ repo[1].time = 2
    /\ Len(contributors) = 2
    /\ \E i \in 1..2 :
          /\ contributors[i].name = "ann"
          /\ contributors[i].last_contribution = 2
          /\ contributors[i].statistics.num_commits = 2
          /\ contributors[i].percentage_contribution = Fin(200, 3)

----------------------------------------------------------------------------
(* embedding.rs: the sentiments and map_source_file_info_to_file.          *)

QdrantError(e) == [variant |-> "QdrantError", source |-> e]

\* -x. The negative of 0.0 is -0.0: it equals 0.0 and prints as "-0.0".
NegZero == [kind |-> "fin", num |-> 0, den |-> -1]

F32Neg(a) ==
    CASE a.kind = "nan" -> NaN
      [] a.kind = "inf" -> Inf(-a.num)
      [] a.kind = "fin" /\ a.num = 0 -> IF a.den = 1 THEN NegZero ELSE F32Zero
      [] a.kind = "fin" -> Fin(-a.num, a.den)
      [] OTHER -> [a EXCEPT !.kind = IF a.kind = "log10" THEN "neg_log10" ELSE "log10"]

\* f32::log10. The logarithm of a power of ten is exact; of any other
\* positive number it is kept as the term log10(num/den).
F32Log10(a) ==
    CASE a.kind = "nan" -> NaN
      [] a.kind = "inf" -> IF a.num = 1 THEN Inf(1) ELSE NaN
      [] a.kind = "fin" /\ a.num = 0 -> Inf(-1)
      [] a.kind = "fin" /\ a.num < 0 -> NaN
      [] a = Fin(1, 1) -> F32Zero
      [] a = Fin(10, 1) -> Fin(1, 1)
      [] a = Fin(100, 1) -> Fin(2, 1)
      [] OTHER -> [kind |-> "log10", num |-> a.num, den |-> a.den]

\* A variant of ilog10 that counts the decimal digits.
RECURSIVE ilog10_digits(_)
ilog10_digits(num) == IF num < 10 THEN 1 ELSE 1 + ilog10_digits(num \div 10)

\* i64::ilog10 of a positive number. It panics on 0 and below: its caller
\* tests for 0, and a size or a count of lines is never negative.
RECURSIVE ilog10(_)
ilog10(num) == IF num < 10 THEN 0 ELSE 1 + ilog10(num \div 10)

negative_sentiment_for_int(num) ==
    IF num = 0 THEN F32Zero ELSE F32Neg(F32FromInt(ilog10(num)))

negative_sentiment_for_float(num) ==
    IF F32Eq(num, F32Zero) \/ num = NegZero THEN F32Zero ELSE F32Neg(F32Log10(num))

NoContents == [some |-> FALSE, val |-> ""]

get_source_file_contents(source_file_info) ==
    IF source_file_info.source_file.some THEN source_file_info.source_file.val
    ELSE ""

FileData(language, id_hash, contents, size_sentiment, loc_sentiment, frequency_sentiment) ==
    [language |-> language, id_hash |-> id_hash, contents |-> contents,
     size_sentiment |-> size_sentiment, loc_sentiment |-> loc_sentiment,
     frequency_sentiment |-> frequency_sentiment]

FileToEmbed(name, data) == [name |-> name, data |-> data]

map_source_file_info_to_file(source_file_info) ==
    FileToEmbed(source_file_info.name,
        FileData(IF source_file_info.language.some
                 THEN source_file_info.language.val.name ELSE "",
                 IF source_file_info.id_hash.some
                 THEN source_file_info.id_hash.val ELSE "",
                 get_source_file_contents(source_file_info),
                 negative_sentiment_for_int(source_file_info.statistics.size),
                 negative_sentiment_for_int(source_file_info.statistics.loc),
                 negative_sentiment_for_float(source_file_info.statistics.frequency)))

----------------------------------------------------------------------------
(* embedding.rs: serde_json::to_string of a FileToEmbed, from_str into a   *)
(* Value, and flatten_json. A Value is an object (its members in the order *)
(* the Map iterates them) or a leaf (the text that Display prints).        *)

JsonObject(members) ==
    [type |-> "object", text |-> "", str |-> "", members |-> members]

JsonNull == [type |-> "null", text |-> "null", str |-> "", members |-> <<>>]

\* A string prints between quotes.
JsonString(str) ==
    [type |-> "string", text |-> "\"" \o str \o "\"", str |-> str, members |-> <<>>]

\* Value::as_str of a string.
as_str(value) == value.str

\* An f32 is written as a number when it is finite and as null when not.
JsonNumber(x) ==
    CASE x.kind = "fin" ->
           [type |-> "number", text |-> ToString(x.num) \o "/" \o ToString(x.den),
            str |-> "", members |-> <<>>]
      [] x.kind \in {"nan", "inf"} -> JsonNull
      [] OTHER ->
           [type |-> "number",
            text |-> (IF x.kind = "neg_log10" THEN "-log10(" ELSE "log10(")
                     \o ToString(x.num) \o "/" \o ToString(x.den) \o ")",
            str |-> "", members |-> <<>>]

Member(key, value) == [key |-> key, value |-> value]

\* The derived Serialize writes the fields in their declaration order.
to_string(file) ==
    JsonObject(<<
        Member("name", JsonString(file.name)),
        Member("data", JsonObject(<<
            Member("language", JsonString(file.data.language)),
            Member("id_hash", JsonString(file.data.id_hash)),
            Member("contents", JsonString(file.data.contents)),
            Member("size_sentiment", JsonNumber(file.data.size_sentiment)),
            Member("loc_sentiment", JsonNumber(file.data.loc_sentiment)),
            Member("frequency_sentiment", JsonNumber(file.data.frequency_sentiment))>>))>>)

\* The place of a key of FileToEmbed and FileData in the order of strings.
KeyRank(key) ==
    CASE key = "contents" -> 1
      [] key = "data" -> 2
      [] key = "frequency_sentiment" -> 3
      [] key = "id_hash" -> 4
      [] key = "language" -> 5
      [] key = "loc_sentiment" -> 6
      [] key = "name" -> 7
      [] OTHER -> 8

RECURSIVE InsertMember(_, _)
InsertMember(members, m) ==
    IF members = <<>> THEN <<m>>
    ELSE IF KeyRank(m.key) < KeyRank(Head(members).key) THEN <<m>> \o members
         ELSE <<Head(members)>> \o InsertMember(Tail(members), m)

\* serde_json's Map: a BTreeMap, which iterates in the order of the keys,
\* or with the feature preserve_order an IndexMap, which iterates in the
\* order of insertion.
RECURSIVE MapFrom(_, _, _)
MapFrom(members, keep_order, map) ==
    IF members = <<>> THEN map
    ELSE MapFrom(Tail(members), keep_order,
                 IF keep_order THEN Append(map, Head(members))
                 ELSE InsertMember(map, Head(members)))

\* The objects of a FileToEmbed nest one level deep.
from_str(file_json, keep_order) ==
    JsonObject(MapFrom(
        [i \in 1..Len(file_json.members) |->
            IF file_json.members[i].value.type = "object"
            THEN Member(file_json.members[i].key,
                        JsonObject(MapFrom(file_json.members[i].value.members,
                                           keep_order, <<>>)))
            ELSE file_json.members[i]],
        keep_order, <<>>))

\* json_value[key]: the member of that key.
Index(json_value, key) ==
    LET i == CHOOSE i \in 1..Len(json_value.members) : json_value.members[i].key = key
    IN  json_value.members[i].value

\* `for (key, value) in obj`: the children are pushed in the Map's order.
RECURSIVE PushChildren(_, _, _)
PushChildren(stack, members, path) ==
    IF members = <<>> THEN stack
    ELSE PushChildren(Append(stack, [value |-> Head(members).value,
                                     path |-> path \o "/" \o Head(members).key]),
                      Tail(members), path)

\* The `while let Some((value, path)) = stack.pop()` loop. No FileData holds
\* an array.
RECURSIVE FlattenLoop(_, _)
FlattenLoop(stack, flat) ==
    IF stack = <<>> THEN flat
    ELSE LET top == stack[Len(stack)]
             rest == SubSeq(stack, 1, Len(stack) - 1)
         IN  IF top.value.type = "object"
             THEN FlattenLoop(PushChildren(rest, top.value.members, top.path), flat)
             ELSE FlattenLoop(rest, Append(flat, top.path \o "/" \o top.value.text))

flatten_json(json_value) ==
    FlattenLoop(<<[value |-> json_value, path |-> ""]>>, <<>>)

\* A variant of PushEntries that puts a file's entries in front.
PushEntries_front(entries, key, flattened_json) ==
    [i \in 1..Len(flattened_json) |-> key \o ": " \o flattened_json[i]] \o entries

\* for value in flattened_json { result.push(format!("{}: {}", key, value)) }
PushEntries(entries, key, flattened_json) ==
    entries \o [i \in 1..Len(flattened_json) |-> key \o ": " \o flattened_json[i]]

----------------------------------------------------------------------------
(* SpecEmbed: create_repository_embedding, run twice by its caller on      *)
(* equal RepositoryInfo values. The embedding model, the embedding itself  *)
(* and the client of the vector store are the environment: each fails or   *)
(* succeeds.                                                               *)

EmbedNames == {"a.rs", "b"}

\* size, loc and frequency of a file.
EmbedMeasures ==
    {<<0, 0, F32Zero>>, <<1, 9, Fin(100, 1)>>, <<9, 10, NaN>>,
     <<10, 1, Fin(10, 1)>>, <<99, 100, Fin(50, 1)>>, <<1000, 99, F32Zero>>}

\* A SourceFileInfo with a language, a hash and contents (named a.rs), and
\* one with none of them (named b).
EmbedSourceFileInfo(name, measure) ==
    [name |-> name,
     relative_path |-> name,
     language |-> IF name = "a.rs" THEN SomeValue(LanguageType("Rust", <<"rs">>, None))
                  ELSE NoLanguage,
     id_hash |-> IF name = "a.rs" THEN SomeValue(calculate_hash_from("fn"))
                 ELSE [some |-> FALSE, val |-> ""],
     source_file |-> IF name = "a.rs" THEN SomeValue("fn") ELSE NoContents,
     statistics |-> Statistics(measure[1], measure[2], 1, 0, measure[3])]

EmbedSourceFileInfos ==
    {EmbedSourceFileInfo(n, m) : n \in EmbedNames, m \in EmbedMeasures}

NoEmbedOutcome == [tag |-> "none", err |-> NoError]

InitEmbed ==
    /\ \E n \in 0..MaxFiles : repository_info \in [1..n -> EmbedSourceFileInfos]
    /\ preserve_order \in BOOLEAN
    /\ embed_pc = "try_new"
    /\ files_to_embed = <<>>
    /\ files_json = <<>>
    /\ tokens = <<>>
    /\ embedded = <<>>
    /\ embed_outcome = NoEmbedOutcome
    /\ run = 1
    /\ prev_tokens = <<>>
    /\ repo = Idle /\ file_path = Idle /\ scf = Idle /\ scf_prev = Idle
    /\ languages = Idle /\ predominant = Idle /\ lang_pc = Idle
    /\ reports = Idle /\ pc = Idle /\ pass = 0 /\ source_files = Idle
    /\ statistics = Idle /\ predominant_language = Idle /\ contributors = Idle
    /\ outcome = Idle /\ failed = Idle /\ json = Idle /\ prev_json = Idle

\* A variant of AfterCall that tries the embedding again when it failed.
AfterCall_retry(ok, next) ==
    IF ok THEN next ELSE IF next = "client" THEN "flatten" ELSE "returned"

\* `?` on the Result of a call: where the function goes on an error.
AfterCall(ok, next) == IF ok THEN next ELSE "returned"

\* Lines 40 to 44: FlagEmbedding::try_new(..)?
TryNew ==
    /\ embed_pc = "try_new"
    /\ \E ok \in BOOLEAN :
         /\ embed_pc' = AfterCall(ok, "map")
         /\ embed_outcome' = IF ok THEN embed_outcome
                             ELSE [tag |-> "Err", err |-> QdrantError("try_new")]
    /\ UNCHANGED <<repo, freq_vars, lang_vars, pass_vars, repository_info,
                   preserve_order, files_to_embed, files_json, tokens, embedded,
                   run, prev_tokens>>

\* Lines 90 to 99: the FileToEmbed of every source file and its JSON string.
MapFiles ==
    /\ embed_pc = "map"
    /\ files_to_embed' = [i \in 1..Len(repository_info) |->
                             map_source_file_info_to_file(repository_info[i])]
    /\ files_json' = [i \in 1..Len(repository_info) |->
                         to_string(map_source_file_info_to_file(repository_info[i]))]
    /\ tokens' = <<>>
    /\ embed_pc' = "flatten"
    /\ UNCHANGED <<repo, freq_vars, lang_vars, pass_vars, repository_info,
                   preserve_order, embedded, embed_outcome, run, prev_tokens>>

\* One turn of the loop of lines 102 to 111.
FlattenFile ==
    /\ embed_pc = "flatten"
    /\ files_json # <<>>
    /\ LET json_value == from_str(Head(files_json), preserve_order)
           key == as_str(Index(json_value, "name"))
           flattened_json == flatten_json(Index(json_value, "data"))
       IN  tokens' = PushEntries(tokens, key, flattened_json)
    /\ files_json' = Tail(files_json)
    /\ UNCHANGED <<repo, freq_vars, lang_vars, pass_vars, repository_info,
                   preserve_order, embed_pc, files_to_embed, embedded,
                   embed_outcome, run, prev_tokens>>

\* Line 113: model.embed(result, None)?
Embed ==
    /\ embed_pc = "flatten"
    /\ files_json = <<>>
    /\ embedded' = Append(embedded, tokens)
    /\ \E ok \in BOOLEAN :
         /\ embed_pc' = AfterCall(ok, "client")
         /\ embed_outcome' = IF ok THEN embed_outcome
                             ELSE [tag |-> "Err", err |-> QdrantError("embed")]
    /\ UNCHANGED <<repo, freq_vars, lang_vars, pass_vars, repository_info,
                   preserve_order, files_to_embed, files_json, tokens, run,
                   prev_tokens>>

\* Lines 121 to 123: QdrantClient::from_url(..).build()? and Ok(()).
BuildClient ==
    /\ embed_pc = "client"
    /\ \E ok \in BOOLEAN :
         embed_outcome' = IF ok THEN [tag |-> "Ok", err |-> NoError]
                          ELSE [tag |-> "Err", err |-> QdrantError("build")]
    /\ embed_pc' = "returned"
    /\ UNCHANGED <<repo, freq_vars, lang_vars, pass_vars, repository_info,
                   preserve_order, files_to_embed, files_json, tokens, embedded,
                   run, prev_tokens>>

\* The caller runs create_repository_embedding again on an equal value.
SecondRun ==
    /\ embed_pc = "returned"
    /\ run = 1
    /\ run' = 2
    /\ prev_tokens' = embedded
    /\ embed_pc' = "try_new"
    /\ files_to_embed' = <<>>
    /\ files_json' = <<>>
    /\ tokens' = <<>>
    /\ embedded' = <<>>
    /\ embed_outcome' = NoEmbedOutcome
    /\ UNCHANGED <<repo, freq_vars, lang_vars, pass_vars, repository_info,
                   preserve_order>>

NextEmbed ==
    \/ TryNew
    \/ MapFiles
    \/ FlattenFile
    \/ Embed
    \/ BuildClient
    \/ SecondRun

SpecEmbed == InitEmbed /\ [][NextEmbed]_vars

----------------------------------------------------------------------------
(* Claims about create_repository_embedding, checked under SpecEmbed.      *)

\* The FileToEmbed of every source file is built.
Mapped ==
    /\ embed_pc \in {"flatten", "client", "returned"}
    /\ Len(files_to_embed) = Len(repository_info)

\* Every JSON string is flattened into the tokens.
Flattened == Mapped /\ files_json = <<>> /\ embed_outcome.err # QdrantError("try_new")

\* The order of a file's tokens: the reverse of the order in which the Map
\* of this build iterates the keys of FileData.
FieldOrder ==
    IF preserve_order
    THEN <<"frequency_sentiment", "loc_sentiment", "size_sentiment",
           "contents", "id_hash", "language">>
    ELSE <<"size_sentiment", "loc_sentiment", "language", "id_hash",
           "frequency_sentiment", "contents">>

FieldText(data, field) ==
    CASE field = "language" -> JsonString(data.language).text
      [] field = "id_hash" -> JsonString(data.id_hash).text
      [] field = "contents" -> JsonString(data.contents).text
      [] field = "size_sentiment" -> JsonNumber(data.size_sentiment).text
      [] field = "loc_sentiment" -> JsonNumber(data.loc_sentiment).text
      [] OTHER -> JsonNumber(data.frequency_sentiment).text

TokenOf(file, field) ==
    file.name \o ": /" \o field \o "/" \o FieldText(file.data, field)

NumFields == Len(FieldOrder)

C12_EmbedExactlyOnce ==
    embed_pc = "returned" =>
        /\ Len(embedded) = 1
        /\ embedded[1] = tokens
        /\ Len(tokens) = NumFields * Len(repository_info)

\* C12 amended: model.embed is invoked at most once in a run, only after
\* every JSON string is flattened and with all the tokens; exactly once in
\* every ended run in which FlagEmbedding::try_new succeeded and never in a
\* run in which it failed, which returns that error; a failed embed is what
\* the run returns, and embed is not invoked again.
C12_EmbedAtMostOnce ==
    /\ Len(embedded) <= 1
    /\ embedded # <<>> =>
          /\ files_json = <<>>
          /\ embedded[1] = tokens
          /\ Len(tokens) = NumFields * Len(repository_info)
    /\ embed_pc = "returned" =>
          IF embed_outcome = [tag |-> "Err", err |-> QdrantError("try_new")]
          THEN embedded = <<>>
          ELSE Len(embedded) = 1
    /\ embed_outcome.err = QdrantError("embed") =>
          /\ embed_pc = "returned"
          /\ embed_outcome.tag = "Err"
          /\ Len(embedded) = 1

C12_Witness ==
    /\ embed_pc = "returned"
    /\ embed_outcome = [tag |-> "Err", err |-> QdrantError("embed")]
    /\ Len(repository_info) = 2
    /\ Len(embedded) = 1
    /\ Len(embedded[1]) = 12

\* The powers of ten within the sizes of the model.
Exponents == 0..8

RECURSIVE Pow10(_)
Pow10(k) == IF k = 0 THEN 1 ELSE 10 * Pow10(k - 1)

\* -0.0 is the number 0.0.
Numeric(x) == IF x = NegZero THEN F32Zero ELSE x

\* x is 0 for n = 0 and -floor(log10(n)) for n >= 1.
IsSentimentOf(x, n) ==
    IF n = 0 THEN Numeric(x) = F32Zero
    ELSE \E k \in Exponents :
            /\ Pow10(k) <= n
            /\ n < Pow10(k + 1)
            /\ Numeric(x) = Fin(-k, 1)

\* C16: size_sentiment and loc_sentiment of every file are 0 for the input
\* 0 and -floor(log10(n)) for an input n >= 1; they are never positive, and
\* of two files the one with the larger input never has the higher score.
C16_SentimentIsNegFloorLog10 ==
    Mapped =>
        \A i \in 1..Len(files_to_embed) :
            LET data == files_to_embed[i].data
                st == repository_info[i].statistics
            IN  /\ IsSentimentOf(data.size_sentiment, st.size)
                /\ IsSentimentOf(data.loc_sentiment, st.loc)
                /\ ~F32Gt(Numeric(data.size_sentiment), F32Zero)
                /\ ~F32Gt(Numeric(data.loc_sentiment), F32Zero)
                /\ \A j \in 1..Len(files_to_embed) :
                      /\ st.size <= repository_info[j].statistics.size =>
                            ~F32Gt(Numeric(files_to_embed[j].data.size_sentiment),
                                   Numeric(data.size_sentiment))
                      /\ st.loc <= repository_info[j].statistics.loc =>
                            ~F32Gt(Numeric(files_to_embed[j].data.loc_sentiment),
                                   Numeric(data.loc_sentiment))

C16_Witness ==
    /\ Mapped
    /\ Len(files_to_embed) = 2
    /\ repository_info[1].statistics.size = 1000
    /\ files_to_embed[1].data.size_sentiment = Fin(-3, 1)
    /\ repository_info[1].statistics.loc = 99
    /\ files_to_embed[1].data.loc_sentiment = Fin(-1, 1)
    /\ repository_info[2].statistics.size = 0
    /\ files_to_embed[2].data.size_sentiment = F32Zero
    /\ repository_info[2].statistics.loc = 0

====
